---- MODULE Spec2Model ----
(***************************************************************************)
(* A model of the Othello engine of src/othello.cpp: the board model, the  *)
(* evaluator, the transposition table, the clock, the alpha-beta search    *)
(* with its iterative-deepening driver, and the game loop.                 *)
(***************************************************************************)
EXTENDS Integers, Sequences, FiniteSets, TLC

\* ------------------------------------------------------------------------
\* Program constants
\* ------------------------------------------------------------------------
WinningValue == 32767
LosingValue == -32767
nply == 5
EMPTY == 0
BLACK == 1
WHITE == 2
OUTER == 3
INT_MIN == -2147483647 - 1

AllDirections == <<-11, -10, -9, -1, 1, 9, 10, 11>>

weights ==
  <<0, 0, 0, 0, 0, 0, 0, 0, 0, 0,
    0, 120, -20, 20, 5, 5, 20, -20, 120, 0,
    0, -20, -40, -5, -5, -5, -5, -40, -20, 0,
    0, 20, -5, 15, 3, 3, 15, -5, 20, 0,
    0, 5, -5, 3, 3, 3, 3, -5, 5, 0,
    0, 5, -5, 3, 3, 3, 3, -5, 5, 0,
    0, 20, -5, 15, 3, 3, 15, -5, 20, 0,
    0, -20, -40, -5, -5, -5, -5, -40, -20, 0,
    0, 120, -20, 20, 5, 5, 20, -20, 120, 0,
    0, 0, 0, 0, 0, 0, 0, 0, 0, 0>>

\* weights[i] of the C array (0-based) read from the 1-based tuple
weightOf(i) == weights[i + 1]

Cells == 0..99
IsBorder(i) == i < 10 \/ i >= 90 \/ i % 10 = 0 \/ i % 10 = 9
Interior == {i \in Cells : ~IsBorder(i)}

\* initBoard with a fault seeded: the colours of the four centre discs swapped
initBoardSwapped ==
  [i \in Cells |->
     IF i = 44 \/ i = 55 THEN WHITE
     ELSE IF i = 45 \/ i = 54 THEN BLACK
     ELSE IF IsBorder(i) THEN OUTER
     ELSE EMPTY]

\* initBoard with a fault seeded: the border cells left EMPTY
initBoardNoBorder ==
  [i \in Cells |->
     IF i = 44 \/ i = 55 THEN BLACK
     ELSE IF i = 45 \/ i = 54 THEN WHITE
     ELSE EMPTY]

\* ------------------------------------------------------------------------
\* Board model (class OthelloBoard); a board is a function Cells -> 0..3
\* ------------------------------------------------------------------------
initBoard ==
  [i \in Cells |->
     IF i = 44 \/ i = 55 THEN BLACK
     ELSE IF i = 45 \/ i = 54 THEN WHITE
     ELSE IF IsBorder(i) THEN OUTER
     ELSE EMPTY]

opponent(p) == IF p = BLACK THEN WHITE ELSE BLACK

\* the while(true) walk of legalMove, entered with b[pos] = opponent
RECURSIVE legalWalk(_, _, _, _)
legalWalk(b, pos, dir, p) ==
  LET n == pos + dir IN
    IF b[n] = p THEN TRUE
    ELSE IF b[n] = EMPTY \/ b[n] = OUTER THEN FALSE
    ELSE legalWalk(b, n, dir, p)

\* legalMove with a fault seeded: a neighbouring opponent disc is taken to be enough,
\* the walk to the bracketing disc left out
legalMoveAdjacent(b, move, p) ==
  IF b[move] # EMPTY THEN FALSE
  ELSE \E d \in 1..8 : b[move + AllDirections[d]] = opponent(p)

legalMove(b, move, p) ==
  IF b[move] # EMPTY THEN FALSE
  ELSE \E d \in 1..8 :
         /\ b[move + AllDirections[d]] = opponent(p)
         /\ legalWalk(b, move + AllDirections[d], AllDirections[d], p)

\* the cells the loops "for i = 11 .. 88, border columns skipped" visit, in
\* the order they visit them: 11..18, 21..28, ..., 81..88
LoopCells == [k \in 1..64 |-> 10 * (((k - 1) \div 8) + 1) + ((k - 1) % 8) + 1]

\* the for loop of hasLegalMoves: TRUE at the first empty cell that is a legal move
hasLegalMoves(b, p) ==
  \E k \in 1..64 : b[LoopCells[k]] = EMPTY /\ legalMove(b, LoopCells[k], p)

\* the last index a direction walk reads: the walks of legalMove,
\* findBracketingPiece, countFlipsForMove and isStableInDirection read pos + dir,
\* pos + 2 * dir, ... while the cell read holds v, and stop on the first cell
\* that does not. An index outside the array is where such a walk would have
\* left it.
walkStop(b, pos, dir, v) ==
  pos + dir * (CHOOSE n \in 1..9 :
                 /\ \A j \in 1..(n - 1) : b[pos + j * dir] = v
                 /\ (pos + n * dir \in Cells => b[pos + n * dir] # v))

\* the number of steps the loop "while (board[square] == opponent) square += dir"
\* takes from square: the length of the run of the opponent's discs
opponentRun(b, square, p, dir) ==
  CHOOSE n \in 0..8 :
    /\ \A j \in 0..(n - 1) : b[square + j * dir] = opponent(p)
    /\ b[square + n * dir] # opponent(p)

\* the cell the walk over the opponent's discs stops on when it holds the
\* player's disc, else 0
findBracketingPiece(b, square, p, dir) ==
  LET stop == square + opponentRun(b, square, p, dir) * dir IN
    IF b[stop] = p THEN stop ELSE 0

\* the cells pos, pos+dir, ... up to (not including) bracketer, in order
runCells(pos, bracketer, dir) ==
  LET n == CHOOSE k \in 0..8 : pos + k * dir = bracketer IN
    [k \in 1..n |-> pos + (k - 1) * dir]

\* board with every cell of the sequence cs set to v
setCells(b, cs, v) ==
  [i \in Cells |-> IF \E k \in 1..Len(cs) : cs[k] = i THEN v ELSE b[i]]

\* makeFlips / makeFlipsAndRecord for one direction: the cells flipped, in
\* the order they are flipped (the vector makeFlipsAndRecord returns)
makeFlipsAndRecord(b, move, p, dir) ==
  LET bracketer == findBracketingPiece(b, move + dir, p, dir) IN
    IF bracketer # 0
      THEN runCells(move + dir, bracketer, dir)
      ELSE <<>>

\* the for loop over the eight directions, on the board b that already holds
\* p on move: the flipped cells of the directions in the order of
\* AllDirections. The walk of a direction reads only the cells of its own ray
\* from move, and the eight rays share no cell, so the flips of one direction
\* are not read by the walk of another.
flipsOfMove(b, move, p) ==
  makeFlipsAndRecord(b, move, p, AllDirections[1])
  \o makeFlipsAndRecord(b, move, p, AllDirections[2])
  \o makeFlipsAndRecord(b, move, p, AllDirections[3])
  \o makeFlipsAndRecord(b, move, p, AllDirections[4])
  \o makeFlipsAndRecord(b, move, p, AllDirections[5])
  \o makeFlipsAndRecord(b, move, p, AllDirections[6])
  \o makeFlipsAndRecord(b, move, p, AllDirections[7])
  \o makeFlipsAndRecord(b, move, p, AllDirections[8])

\* line 218 puts the disc, line 220 flips: the flipped cells are worked out
\* once, on the board that holds the disc
makeMove(b, move, p) ==
  LET placed == [b EXCEPT ![move] = p] IN
    CHOOSE after \in {setCells(placed, flipped, p) :
                        flipped \in {flipsOfMove(placed, move, p)}} : TRUE

\* makeMoveWithUndo: the board after the move and the UndoInfo returned
makeMoveWithUndo(b, move, p) ==
  LET placed == [b EXCEPT ![move] = p] IN
    CHOOSE r \in {[board |-> setCells(placed, flipped, p),
                    undo |-> [move |-> move, flippedPositions |-> flipped]] :
                     flipped \in {flipsOfMove(placed, move, p)}} : TRUE

\* unmakeMove with a fault seeded: the flipped cells restored, the move cell left as it is
unmakeMoveKeepsDisc(b, undo, p) ==
  setCells(b, undo.flippedPositions, opponent(p))

\* unmakeMove with a fault seeded: the move cell emptied, the flipped cells left as they are
unmakeMoveKeepsFlips(b, undo, p) ==
  [b EXCEPT ![undo.move] = EMPTY]

unmakeMove(b, undo, p) ==
  setCells([b EXCEPT ![undo.move] = EMPTY], undo.flippedPositions, opponent(p))

\* countFlipsForMove, one direction: the run of the opponent's cells next to
\* move, counted when the cell after the run holds the player
flipRun(b, move, p, dir) ==
  LET run == opponentRun(b, move + dir, p, dir) IN
    IF b[move + dir + run * dir] = p THEN run ELSE 0

countFlipsForMove(b, move, p) ==
  flipRun(b, move, p, AllDirections[1]) + flipRun(b, move, p, AllDirections[2])
  + flipRun(b, move, p, AllDirections[3]) + flipRun(b, move, p, AllDirections[4])
  + flipRun(b, move, p, AllDirections[5]) + flipRun(b, move, p, AllDirections[6])
  + flipRun(b, move, p, AllDirections[7]) + flipRun(b, move, p, AllDirections[8])

\* ------------------------------------------------------------------------
\* Evaluator (OthelloBoard::advancedEvaluation and its helpers)
\* ------------------------------------------------------------------------
countPieces(b) == Cardinality({i \in Interior : b[i] = BLACK \/ b[i] = WHITE})

countDiscs(b, p) == Cardinality({i \in Interior : b[i] = p})

mobility(b, p) ==
  (Cardinality({m \in Interior : legalMove(b, m, p)})
   - Cardinality({m \in Interior : legalMove(b, m, opponent(p))})) * 10

\* sum over a sequence of cells of +unit for the player's, -unit for the
\* opponent's discs
signedCount(b, p, cs, unit) ==
  unit * Cardinality({k \in 1..Len(cs) : b[cs[k]] = p})
  - unit * Cardinality({k \in 1..Len(cs) : b[cs[k]] = opponent(p)})

cornerControl(b, p) == signedCount(b, p, <<11, 18, 81, 88>>, 100)

edgePositions ==
  <<12, 13, 14, 15, 16, 17, 21, 31, 41, 51, 61, 71,
    28, 38, 48, 58, 68, 78, 82, 83, 84, 85, 86, 87>>

edgeControl(b, p) == signedCount(b, p, edgePositions, 5)

RECURSIVE stableWalk(_, _, _, _)
stableWalk(b, next, p, dir) ==
  IF b[next] = p THEN stableWalk(b, next + dir, p, dir)
  ELSE b[next] = OUTER

isStableInDirection(b, pos, p, dir) == stableWalk(b, pos + dir, p, dir)

isStable(b, pos, p) ==
  IF b[pos] # p THEN FALSE
  ELSE IF pos = 11 \/ pos = 18 \/ pos = 81 \/ pos = 88 THEN TRUE
  ELSE /\ (isStableInDirection(b, pos, p, -1) \/ isStableInDirection(b, pos, p, 1))
       /\ (isStableInDirection(b, pos, p, -10) \/ isStableInDirection(b, pos, p, 10))
       /\ (isStableInDirection(b, pos, p, -11) \/ isStableInDirection(b, pos, p, 11))
       /\ (isStableInDirection(b, pos, p, -9) \/ isStableInDirection(b, pos, p, 9))

stability(b, p) ==
  10 * Cardinality({pos \in Interior : b[pos] = p /\ isStable(b, pos, p)})
  - 10 * Cardinality({pos \in Interior :
                        b[pos] = opponent(p) /\ isStable(b, pos, opponent(p))})

\* <<xSquare, corner>> pairs
dangerousSpots ==
  <<<<22, 11>>, <<12, 11>>, <<21, 11>>,
    <<27, 18>>, <<17, 18>>, <<28, 18>>,
    <<72, 81>>, <<82, 81>>, <<71, 81>>,
    <<77, 88>>, <<87, 88>>, <<78, 88>>>>

\* the spots next to a corner the player does not hold: -25 for each that
\* holds the player's disc, +25 for each that holds the opponent's
dangerousSquares(b, p) ==
  LET open == {k \in 1..Len(dangerousSpots) : b[dangerousSpots[k][2]] # p} IN
    25 * Cardinality({k \in open : b[dangerousSpots[k][1]] = opponent(p)})
    - 25 * Cardinality({k \in open : b[dangerousSpots[k][1]] = p})

parity(b, p) == IF (64 - countPieces(b)) % 2 = 1 THEN 3 ELSE -3

advancedEvaluation(b, p) ==
  LET totalPieces == countPieces(b) IN
    IF totalPieces <= 20
      THEN mobility(b, p) * 4 + cornerControl(b, p) * 3 + dangerousSquares(b, p) * 2
    ELSE IF totalPieces <= 50
      THEN mobility(b, p) * 2 + stability(b, p) + cornerControl(b, p) * 2
           + edgeControl(b, p) + dangerousSquares(b, p)
    ELSE (countDiscs(b, p) - countDiscs(b, opponent(p))) * 3
         + cornerControl(b, p) * 3 + stability(b, p) + parity(b, p)

\* ------------------------------------------------------------------------
\* Transposition table (class TranspositionTable): a function from the keys
\* <<board, player>> it holds to entries
\* ------------------------------------------------------------------------
TTEntry(v, d, move, f) == [value |-> v, depth |-> d, bestMove |-> move, flag |-> f]

\* TTEntry(): the entry operator[] creates for a key not yet held
TTEntryDefault == TTEntry(0, 0, -1, "EXACT")

\* store with a fault seeded: the slot is replaced whatever depth it holds
storeAlways(tt, b, p, value, depth, bestMove, flag) ==
  (<<b, p>> :> TTEntry(value, depth, bestMove, flag)) @@ tt

store(tt, b, p, value, depth, bestMove, flag) ==
  LET k == <<b, p>>
      slot == IF k \in DOMAIN tt THEN tt[k] ELSE TTEntryDefault
  IN IF depth >= slot.depth
       THEN (k :> TTEntry(value, depth, bestMove, flag)) @@ tt
       ELSE (k :> slot) @@ tt

\* lookup with a fault seeded: the depth held is not compared with the depth asked
lookupAnyDepth(tt, b, p, depth, alpha, beta) ==
  LET k == <<b, p>> IN
    IF k \notin DOMAIN tt THEN [hit |-> FALSE, value |-> 0, bestMove |-> -1]
    ELSE LET entry == tt[k] IN
      IF entry.flag = "EXACT"
             \/ (entry.flag = "LOWER_BOUND" /\ entry.value >= beta)
             \/ (entry.flag = "UPPER_BOUND" /\ entry.value <= alpha)
        THEN [hit |-> TRUE, value |-> entry.value, bestMove |-> entry.bestMove]
        ELSE [hit |-> FALSE, value |-> 0, bestMove |-> entry.bestMove]

\* lookup: hit, and the values left in the out-parameters value and bestMove
\* (bestMove is entered as -1 by the caller; value is unset on a miss)
lookup(tt, b, p, depth, alpha, beta) ==
  LET k == <<b, p>> IN
    IF k \notin DOMAIN tt THEN [hit |-> FALSE, value |-> 0, bestMove |-> -1]
    ELSE LET entry == tt[k] IN
      IF entry.depth < depth THEN [hit |-> FALSE, value |-> 0, bestMove |-> -1]
      ELSE IF entry.flag = "EXACT"
             \/ (entry.flag = "LOWER_BOUND" /\ entry.value >= beta)
             \/ (entry.flag = "UPPER_BOUND" /\ entry.value <= alpha)
        THEN [hit |-> TRUE, value |-> entry.value, bestMove |-> entry.bestMove]
        ELSE [hit |-> FALSE, value |-> 0, bestMove |-> entry.bestMove]

\* ------------------------------------------------------------------------
\* Helpers of OthelloGame::alphabeta
\* ------------------------------------------------------------------------
\* -x on a 32-bit int (two's complement: INT_MIN negates to itself)
neg(x) == IF x = INT_MIN THEN INT_MIN ELSE -x

\* the move-generation loop: the empty legal cells in the order of the loop
\* genMoves with a fault seeded: the loop skips the last interior column as well
genMovesShort(b, p) ==
  SelectSeq(LoopCells, LAMBDA i : i % 10 # 8 /\ b[i] = EMPTY /\ legalMove(b, i, p))

genMoves(b, p) ==
  SelectSeq(LoopCells, LAMBDA i : b[i] = EMPTY /\ legalMove(b, i, p))

isCorner(a) == a = 11 \/ a = 18 \/ a = 81 \/ a = 88

\* the comparator of the std::sort call: TRUE when a goes before b
moveLess(b, p, hist, x, y) ==
  IF isCorner(x) # isCorner(y) THEN isCorner(x)
  ELSE IF hist[x] # hist[y] THEN hist[x] > hist[y]
  ELSE IF countFlipsForMove(b, x, p) # countFlipsForMove(b, y, p)
    THEN countFlipsForMove(b, x, p) > countFlipsForMove(b, y, p)
  ELSE weightOf(x) > weightOf(y)

\* the place std::sort gives the moves: ms[j] is put before ms[i] when the
\* comparator says so, and two moves the comparator ties are kept in
\* generation order (tie = "asc") or reversed (tie = "desc")
goesBefore(b, p, hist, tie, ms, j, i) ==
  \/ moveLess(b, p, hist, ms[j], ms[i])
  \/ /\ ~moveLess(b, p, hist, ms[i], ms[j])
     /\ IF tie = "asc" THEN j < i ELSE j > i

\* the sorted list: the move with r - 1 moves before it is the r-th
sortMoves(b, p, hist, tie, ms) ==
  LET placed == {<<Cardinality({j \in 1..Len(ms) :
                                   j # i /\ goesBefore(b, p, hist, tie, ms, j, i)}), ms[i]>> :
                   i \in 1..Len(ms)}
  IN [r \in 1..Len(ms) |-> (CHOOSE pr \in placed : pr[1] = r - 1)[2]]

without(ms, x) == SelectSeq(ms, LAMBDA m : m # x)

inSeq(ms, x) == \E k \in 1..Len(ms) : ms[k] = x

\* orderMoves with a fault seeded: the table's move is not put first
orderMovesNoHint(b, p, hist, tie, ttMove) ==
  sortMoves(b, p, hist, tie, genMoves(b, p))

\* the move list as alphabeta searches it: the table's move first when it
\* is among the generated moves, the rest sorted
orderMoves(b, p, hist, tie, ttMove) ==
  LET moves == genMoves(b, p) IN
    IF ttMove # -1 /\ inSeq(moves, ttMove)
      THEN <<ttMove>> \o sortMoves(b, p, hist, tie, without(moves, ttMove))
      ELSE sortMoves(b, p, hist, tie, moves)

\* the disc differential of the game-over branch, over all 100 cells
discDiff(b, p) ==
  Cardinality({i \in Cells : b[i] = p}) - Cardinality({i \in Cells : b[i] = opponent(p)})

\* gameOverValue with a fault seeded: the side with fewer discs takes the winning value
gameOverValueSwapped(b, p) ==
  IF discDiff(b, p) > 0 THEN LosingValue
  ELSE IF discDiff(b, p) < 0 THEN WinningValue ELSE 0

gameOverValue(b, p) ==
  IF discDiff(b, p) > 0 THEN WinningValue
  ELSE IF discDiff(b, p) < 0 THEN LosingValue ELSE 0

\* storeFlag with a fault seeded: the value compared with beta only
storeFlagNoUpper(bestVal, originalAlpha, beta) ==
  IF bestVal >= beta THEN "LOWER_BOUND" ELSE "EXACT"

\* the flag chosen for the entry stored when the move loop is left
storeFlag(bestVal, originalAlpha, beta) ==
  IF bestVal <= originalAlpha THEN "UPPER_BOUND"
  ELSE IF bestVal >= beta THEN "LOWER_BOUND"
  ELSE "EXACT"

\* ------------------------------------------------------------------------
\* Bounds of the model and the recorded games its positions come from
\* ------------------------------------------------------------------------
\* a recorded legal game from the initial position (cells in play order;
\* the side to move follows the pass rule of the game loop)
GameLine ==
  <<64, 65, 66, 75, 84, 67, 77, 63, 74, 43, 35, 46, 33, 73, 47, 25, 42, 48, 56,
    87, 38, 34, 88, 86, 16, 24, 53, 57, 68, 76, 13, 58, 36, 83, 72, 15, 85, 41,
    51, 37, 52, 78, 31, 82, 14, 81, 26, 28, 27, 32, 21, 62, 71, 61, 23, 11, 18>>

\* the game loop starts from the positions of GameLine that have at most
\* this many empty cells
StartEmpties == 4

\* the side that moves next on board b when p is due: p, or the opponent
\* when p has to pass
sideToMove(b, p) ==
  IF ~hasLegalMoves(b, p) /\ hasLegalMoves(b, opponent(p)) THEN opponent(p) ELSE p

\* ------------------------------------------------------------------------
\* State
\* ------------------------------------------------------------------------
VARIABLES
  board,              \* OthelloGame::board.board
  player,             \* OthelloGame::player, the side to move in run
  pc,                 \* where run is: "opening" (the recorded moves are being played),
                      \* "top", "human", "humanApply", "computer", "search", "apply", "over"
  played,             \* the number of moves of GameLine played so far
  transTable,         \* OthelloGame::transTable
  historyHeuristic,   \* OthelloGame::historyHeuristic
  bestm,              \* OthelloGame::bestm (bestm[i] of the code is bestm[i + 1])
  timeExpired,        \* OthelloGame::timeExpired
  timeLimit,          \* TimeManager::timeLimit in ms
  clock,              \* the steady clock as the engine has read it since startTimer:
                      \* "running", "low" once getRemainingMs() has been below 100, "up"
                      \* once timeUp() has been true (the clock never goes back)
  stack,              \* the active calls of alphabeta, innermost last
  ret,                \* the value the last finished alphabeta call returned, with the
                      \* call's arguments, the way it ended and the board it returned on
  id,                 \* the locals of iterativeDeepening
  tie,                \* how this build's std::sort orders moves its comparator ties
  runMove,            \* the local move of run: the cell getMove or iterativeDeepening returned
  probe               \* a direct call of a board operation (SpecBoard): the call under
                      \* way, with the board before it and the UndoInfo it returned

vars == <<board, player, pc, played, transTable, historyHeuristic, bestm, timeExpired,
          timeLimit, clock, stack, ret, id, tie, runMove, probe>>

human == BLACK
computer == opponent(human)

NoRet == [val |-> 0, player |-> 0, alpha |-> 0, beta |-> 0, ply |-> -1, how |-> "none",
          board |-> <<>>]
\* rootBoard is the position iterativeDeepening was called on; the code keeps
\* no copy of it, the field records it for the properties
IdleId == [at |-> "idle", player |-> 0, maxDepth |-> 0, depth |-> 0, alpha |-> 0,
           beta |-> 0, delta |-> 0, lastScore |-> 0, bestMove |-> -1, score |-> 0,
           rootBoard |-> <<>>]
NoUndo == [move |-> -1, flippedPositions |-> <<>>]
NoProbe == [at |-> "none"]

\* the members as OthelloGame() and TimeManager() leave them
EngineInit ==
  /\ transTable = <<>>
  /\ historyHeuristic = [i \in Cells |-> 0]
  /\ bestm = [i \in 1..(nply + 1) |-> 0]
  /\ timeExpired = FALSE
  /\ timeLimit = 2000
  /\ clock = "running"
  /\ stack = <<>>
  /\ ret = NoRet
  /\ id = IdleId

\* the state OthelloGame() and the first lines of run construct
Init ==
  /\ board = initBoard
  /\ player = BLACK
  /\ pc = "opening"
  /\ played = 0
  /\ EngineInit
  /\ tie \in {"asc", "desc"}
  /\ runMove = -1
  /\ probe = NoProbe

\* the game follows GameLine: the side to move plays the next recorded cell
\* (a legal move), and a side without a move passes
Opening ==
  /\ pc = "opening" /\ played < Len(GameLine)
  /\ legalMove(board, GameLine[played + 1], player)
  /\ LET b == makeMove(board, GameLine[played + 1], player) IN
       /\ board' = b
       /\ player' = sideToMove(b, opponent(player))
  /\ played' = played + 1
  /\ UNCHANGED <<pc, transTable, historyHeuristic, bestm, timeExpired, timeLimit,
                 clock, stack, ret, id, tie, runMove, probe>>

\* from a position with at most StartEmpties empty cells the game goes on
\* in the game loop, the human and the engine choosing the moves
OpeningEnds ==
  /\ pc = "opening" /\ 60 - played <= StartEmpties
  /\ pc' = "top"
  /\ UNCHANGED <<board, player, played, transTable, historyHeuristic, bestm,
                 timeExpired, timeLimit, clock, stack, ret, id, tie, runMove, probe>>

\* what a call of timeUp() can answer: the steady clock never goes back, so
\* after one "up" every later answer is "up"; before it, the limit may or may
\* not have been reached since the last reading
ClockReads == IF clock = "up" THEN {"up"} ELSE {clock, "up"}

\* what getRemainingMs() can show at the head of the depth loop: 100 ms or more
\* ("running"), less than 100 ms ("low"), or nothing left ("up")
RemainingReads ==
  IF clock = "up" THEN {"up"}
  ELSE IF clock = "low" THEN {"low", "up"}
  ELSE {"running", "low", "up"}

\* ------------------------------------------------------------------------
\* OthelloGame::alphabeta, one call per stack frame
\* ------------------------------------------------------------------------
Frame(p, alpha, beta, ply) ==
  [player |-> p, alpha |-> alpha, beta |-> beta, ply |-> ply,
   originalAlpha |-> alpha, boardArray |-> <<>>, moves |-> <<>>, idx |-> 0,
   bestVal |-> INT_MIN, bestMove |-> -1, undo |-> NoUndo, at |-> "entry"]

Top == stack[Len(stack)]
Pop == SubSeq(stack, 1, Len(stack) - 1)
SetTop(f) == [stack EXCEPT ![Len(stack)] = f]

\* what a call leaves behind when it returns v: the value, the arguments it
\* was called with and the board it returns on
Returned(f, v, how) ==
  [val |-> v, player |-> f.player, alpha |-> f.originalAlpha, beta |-> f.beta,
   ply |-> f.ply, how |-> how, board |-> board]

\* lines 576-653: the time check, the table probe, the leaf, move generation
\* and ordering, and the node without moves
ABEnter ==
  /\ stack # <<>> /\ Top.at = "entry"
  /\ \E now \in ClockReads :
       /\ clock' = now
       /\ LET f == Top
              lk == lookup(transTable, board, f.player, f.ply, f.alpha, f.beta)
          IN IF now = "up"
               THEN /\ timeExpired' = TRUE
                    /\ stack' = Pop
                    /\ ret' = Returned(f, f.alpha, "timeout")
                    /\ UNCHANGED <<transTable, bestm>>
             ELSE IF lk.hit
               THEN /\ bestm' = IF f.ply > 0
                                  THEN [bestm EXCEPT ![f.ply + 1] = lk.bestMove]
                                  ELSE bestm
                    /\ stack' = Pop
                    /\ ret' = Returned(f, lk.value, "hit")
                    /\ UNCHANGED <<transTable, timeExpired>>
             ELSE IF f.ply = 0
               THEN LET evaluation == advancedEvaluation(board, f.player) IN
                    /\ transTable' = store(transTable, board, f.player, evaluation,
                                           f.ply, -1, "EXACT")
                    /\ stack' = Pop
                    /\ ret' = Returned(f, evaluation, "leaf")
                    /\ UNCHANGED <<bestm, timeExpired>>
             ELSE LET moves == orderMoves(board, f.player, historyHeuristic, tie,
                                          lk.bestMove) IN
               IF moves = <<>>
                 THEN IF hasLegalMoves(board, opponent(f.player))
                        THEN /\ stack' = SetTop([f EXCEPT !.boardArray = board,
                                                          !.at = "pass"])
                                         \o <<Frame(opponent(f.player), neg(f.beta),
                                                    neg(f.alpha), f.ply - 1)>>
                             /\ UNCHANGED <<transTable, bestm, timeExpired, ret>>
                        ELSE LET val == gameOverValue(board, f.player) IN
                             /\ transTable' = store(transTable, board, f.player, val,
                                                    f.ply, -1, "EXACT")
                             /\ stack' = Pop
                             /\ ret' = Returned(f, val, "over")
                             /\ UNCHANGED <<bestm, timeExpired>>
                 ELSE /\ stack' = SetTop([f EXCEPT !.boardArray = board, !.moves = moves,
                                                   !.idx = 1, !.at = "loop"])
                      /\ UNCHANGED <<transTable, bestm, timeExpired, ret>>
  /\ UNCHANGED <<played, board, player, pc, historyHeuristic, timeLimit, id, tie,
                 runMove, probe>>

\* lines 644-646: the forced pass, after the opponent's search returned
ABAfterPass ==
  /\ stack # <<>> /\ Top.at = "pass"
  /\ LET f == Top
         val == neg(ret.val)
     IN /\ transTable' = store(transTable, f.boardArray, f.player, val, f.ply, -1, "EXACT")
        /\ stack' = Pop
        /\ ret' = Returned(f, val, "pass")
  /\ UNCHANGED <<played, board, player, pc, historyHeuristic, bestm, timeExpired, timeLimit,
                 clock, id, tie, runMove, probe>>

\* lines 657-662: the head of the move loop, the move applied and the child called
ABMove ==
  /\ stack # <<>> /\ Top.at = "loop"
  /\ LET f == Top IN
       IF timeExpired
         THEN /\ stack' = SetTop([f EXCEPT !.at = "finish"])
              /\ UNCHANGED board
         ELSE \E r \in {makeMoveWithUndo(board, f.moves[f.idx], f.player)} :
              /\ board' = r.board
              /\ stack' = SetTop([f EXCEPT !.undo = r.undo, !.at = "child"])
                          \o <<Frame(opponent(f.player), neg(f.beta), neg(f.alpha), f.ply - 1)>>
  /\ UNCHANGED <<played, player, pc, transTable, historyHeuristic, bestm, timeExpired,
                 timeLimit, clock, ret, id, tie, runMove, probe>>

\* ABAfterChild with a fault seeded: timeExpired is not tested after the child returns
ABAfterChildIgnoresExpiry ==
  /\ stack # <<>> /\ Top.at = "child"
  /\ LET f == Top
         move == f.moves[f.idx]
         val == neg(ret.val)
         improves == val > f.bestVal
         bestVal == IF improves THEN val ELSE f.bestVal
         bestMove == IF improves THEN move ELSE f.bestMove
         raises == improves /\ bestVal > f.alpha
         alpha == IF raises THEN bestVal ELSE f.alpha
         cutoff == improves /\ alpha >= f.beta
         g == [f EXCEPT !.bestVal = bestVal, !.bestMove = bestMove, !.alpha = alpha,
                        !.undo = NoUndo, !.idx = f.idx + 1,
                        !.at = IF cutoff \/ f.idx + 1 > Len(f.moves)
                                 THEN "finish" ELSE "loop"]
     IN /\ board' = unmakeMove(board, f.undo, f.player)
        /\ stack' = SetTop(g)
        /\ bestm' = IF raises THEN [bestm EXCEPT ![f.ply + 1] = bestMove] ELSE bestm
        /\ historyHeuristic' =
             IF cutoff
               THEN [historyHeuristic EXCEPT ![bestMove] = @ + f.ply * f.ply]
               ELSE historyHeuristic
  /\ UNCHANGED <<played, player, pc, transTable, timeExpired, timeLimit, clock, ret, id, tie, runMove, probe>>

\* ABAfterChild with a fault seeded: the history counter raised by the depth, not its square
ABAfterChildHistoryByDepth ==
  /\ stack # <<>> /\ Top.at = "child"
  /\ LET f == Top
         move == f.moves[f.idx]
         val == neg(ret.val)
         improves == val > f.bestVal
         bestVal == IF improves THEN val ELSE f.bestVal
         bestMove == IF improves THEN move ELSE f.bestMove
         raises == improves /\ bestVal > f.alpha
         alpha == IF raises THEN bestVal ELSE f.alpha
         cutoff == improves /\ alpha >= f.beta
         g == [f EXCEPT !.bestVal = bestVal, !.bestMove = bestMove, !.alpha = alpha,
                        !.undo = NoUndo, !.idx = f.idx + 1,
                        !.at = IF cutoff \/ f.idx + 1 > Len(f.moves)
                                 THEN "finish" ELSE "loop"]
     IN /\ board' = unmakeMove(board, f.undo, f.player)
        /\ IF timeExpired
             THEN /\ stack' = SetTop([f EXCEPT !.undo = NoUndo, !.at = "finish"])
                  /\ UNCHANGED <<bestm, historyHeuristic>>
             ELSE /\ stack' = SetTop(g)
                  /\ bestm' = IF raises THEN [bestm EXCEPT ![f.ply + 1] = bestMove] ELSE bestm
                  /\ historyHeuristic' =
                       IF cutoff
                         THEN [historyHeuristic EXCEPT ![bestMove] = @ + f.ply]
                         ELSE historyHeuristic
  /\ UNCHANGED <<played, player, pc, transTable, timeExpired, timeLimit, clock, ret, id, tie, runMove, probe>>

\* lines 662-680: the child's value negated, the move taken back, the best
\* value, alpha, bestm and the history counter updated
ABAfterChild ==
  /\ stack # <<>> /\ Top.at = "child"
  /\ LET f == Top
         move == f.moves[f.idx]
         val == neg(ret.val)
         improves == val > f.bestVal
         bestVal == IF improves THEN val ELSE f.bestVal
         bestMove == IF improves THEN move ELSE f.bestMove
         raises == improves /\ bestVal > f.alpha
         alpha == IF raises THEN bestVal ELSE f.alpha
         cutoff == improves /\ alpha >= f.beta
         g == [f EXCEPT !.bestVal = bestVal, !.bestMove = bestMove, !.alpha = alpha,
                        !.undo = NoUndo, !.idx = f.idx + 1,
                        !.at = IF cutoff \/ f.idx + 1 > Len(f.moves)
                                 THEN "finish" ELSE "loop"]
     IN /\ board' = unmakeMove(board, f.undo, f.player)
        /\ IF timeExpired
             THEN /\ stack' = SetTop([f EXCEPT !.undo = NoUndo, !.at = "finish"])
                  /\ UNCHANGED <<bestm, historyHeuristic>>
             ELSE /\ stack' = SetTop(g)
                  /\ bestm' = IF raises THEN [bestm EXCEPT ![f.ply + 1] = bestMove] ELSE bestm
                  /\ historyHeuristic' =
                       IF cutoff
                         THEN [historyHeuristic EXCEPT ![bestMove] = @ + f.ply * f.ply]
                         ELSE historyHeuristic
  /\ UNCHANGED <<played, player, pc, transTable, timeExpired, timeLimit, clock, ret, id, tie, runMove, probe>>

\* lines 682-693: the entry stored and the best value returned
ABFinish ==
  /\ stack # <<>> /\ Top.at = "finish"
  /\ LET f == Top IN
       /\ transTable' = store(transTable, f.boardArray, f.player, f.bestVal, f.ply,
                              f.bestMove, storeFlag(f.bestVal, f.originalAlpha, f.beta))
       /\ stack' = Pop
       /\ ret' = Returned(f, f.bestVal, "loop")
  /\ UNCHANGED <<played, board, player, pc, historyHeuristic, bestm, timeExpired, timeLimit,
                 clock, id, tie, runMove, probe>>

\* ------------------------------------------------------------------------
\* Time management
\* ------------------------------------------------------------------------
\* adjustTimeLimit: the limit chosen from the number of discs
adjustedLimit(b) ==
  LET totalPieces == Cardinality({i \in Cells : b[i] = BLACK \/ b[i] = WHITE}) IN
    IF totalPieces <= 20 THEN 1500
    ELSE IF totalPieces <= 50 THEN 2000
    ELSE 3000

\* ------------------------------------------------------------------------
\* OthelloGame::iterativeDeepening
\* ------------------------------------------------------------------------
\* lines 813-702: the computer's turn starts: the limit adjusted, the locals
\* set and the table cleared
IDStart ==
  /\ pc = "computer"
  /\ timeLimit' = adjustedLimit(board)
  /\ id' = [IdleId EXCEPT !.at = "startTimer", !.player = player, !.maxDepth = nply,
                          !.depth = 1, !.rootBoard = board]
  /\ timeExpired' = FALSE
  /\ transTable' = <<>>
  /\ pc' = "search"
  /\ UNCHANGED <<played, board, player, historyHeuristic, bestm, clock, stack, ret, tie,
                 runMove, probe>>

\* line 705: the timer started, before the depth loop is entered
IDStartTimer ==
  /\ pc = "search" /\ id.at = "startTimer"
  /\ clock' = "running"
  /\ id' = [id EXCEPT !.at = "depthCheck"]
  /\ UNCHANGED <<played, board, player, pc, transTable, historyHeuristic, bestm,
                 timeExpired, timeLimit, stack, ret, tie, runMove, probe>>

\* IDDepthCheck with a fault seeded: the remaining time is not looked at
IDDepthCheckIgnoresClock ==
  /\ pc = "search" /\ id.at = "depthCheck"
  /\ IF id.depth > id.maxDepth
       THEN /\ runMove' = id.bestMove
            /\ id' = IdleId
            /\ pc' = "apply"
            /\ UNCHANGED clock
       ELSE \E now \in RemainingReads :
              /\ clock' = now
              /\ id' = [id EXCEPT !.delta = 64, !.alpha = id.lastScore - 64,
                                  !.beta = id.lastScore + 64, !.at = "call"]
              /\ UNCHANGED <<runMove, pc>>
  /\ UNCHANGED <<played, board, player, transTable, historyHeuristic, bestm, timeExpired,
                 timeLimit, stack, ret, tie, probe>>

\* lines 707-716: the head of the depth loop; the loop is left when the
\* depth exceeds maxDepth or less than 100 ms remain
IDDepthCheck ==
  /\ pc = "search" /\ id.at = "depthCheck"
  /\ IF id.depth > id.maxDepth
       THEN /\ runMove' = id.bestMove
            /\ id' = IdleId
            /\ pc' = "apply"
            /\ UNCHANGED clock
       ELSE \E now \in RemainingReads :
              /\ clock' = now
              /\ IF now # "running"
                   THEN /\ runMove' = id.bestMove
                        /\ id' = IdleId
                        /\ pc' = "apply"
                   ELSE /\ id' = [id EXCEPT !.delta = 64, !.alpha = id.lastScore - 64,
                                            !.beta = id.lastScore + 64, !.at = "call"]
                        /\ UNCHANGED <<runMove, pc>>
  /\ UNCHANGED <<played, board, player, transTable, historyHeuristic, bestm, timeExpired,
                 timeLimit, stack, ret, tie, probe>>

\* lines 721-722: bestm reset and the root searched with the window
IDCall ==
  /\ pc = "search" /\ id.at = "call"
  /\ bestm' = [i \in 1..(id.depth + 1) |-> -1]
  /\ stack' = <<Frame(id.player, id.alpha, id.beta, id.depth)>>
  /\ id' = [id EXCEPT !.at = "wait"]
  /\ UNCHANGED <<played, board, player, pc, transTable, historyHeuristic, timeExpired,
                 timeLimit, clock, ret, tie, runMove, probe>>

\* IDAfterSearch with a fault seeded: on a time-out the move the aborted depth had
\* reached so far is returned
IDAfterSearchUsesAborted ==
  /\ pc = "search" /\ id.at = "wait" /\ stack = <<>>
  /\ LET score == ret.val
         accept == [id EXCEPT !.score = score, !.lastScore = score,
                              !.bestMove = IF bestm[id.depth + 1] # -1
                                             THEN bestm[id.depth + 1] ELSE id.bestMove,
                              !.depth = id.depth + 1, !.at = "depthCheck"]
     IN
       IF timeExpired
         THEN /\ runMove' = accept.bestMove
              /\ id' = IdleId
              /\ pc' = "apply"
       ELSE IF score <= id.alpha
         THEN /\ id' = [id EXCEPT !.score = score, !.alpha = id.alpha - id.delta,
                                  !.delta = id.delta * 2, !.at = "call"]
              /\ UNCHANGED <<runMove, pc>>
       ELSE IF score >= id.beta
         THEN /\ id' = [id EXCEPT !.score = score, !.beta = id.beta + id.delta,
                                  !.delta = id.delta * 2, !.at = "call"]
              /\ UNCHANGED <<runMove, pc>>
       ELSE /\ id' = accept
            /\ UNCHANGED <<runMove, pc>>
  /\ UNCHANGED <<played, board, player, transTable, historyHeuristic, bestm, timeExpired,
                 timeLimit, clock, stack, ret, tie, probe>>

\* IDAfterSearch with a fault seeded: a score at or above beta is accepted as the
\* depth's score, without a second search
IDAfterSearchAcceptsFailHigh ==
  /\ pc = "search" /\ id.at = "wait" /\ stack = <<>>
  /\ LET score == ret.val IN
       IF timeExpired
         THEN /\ runMove' = id.bestMove
              /\ id' = IdleId
              /\ pc' = "apply"
       ELSE IF score <= id.alpha
         THEN /\ id' = [id EXCEPT !.score = score, !.alpha = id.alpha - id.delta,
                                  !.delta = id.delta * 2, !.at = "call"]
              /\ UNCHANGED <<runMove, pc>>
       ELSE /\ id' = [id EXCEPT !.score = score, !.lastScore = score,
                                !.bestMove = IF bestm[id.depth + 1] # -1
                                               THEN bestm[id.depth + 1] ELSE id.bestMove,
                                !.depth = id.depth + 1, !.at = "depthCheck"]
            /\ UNCHANGED <<runMove, pc>>
  /\ UNCHANGED <<played, board, player, transTable, historyHeuristic, bestm, timeExpired,
                 timeLimit, clock, stack, ret, tie, probe>>

\* IDAfterSearch with a fault seeded: the accepted depth takes its move from the
\* bestm slot of the ply below the root
IDAfterSearchWrongPly ==
  /\ pc = "search" /\ id.at = "wait" /\ stack = <<>>
  /\ LET score == ret.val IN
       IF timeExpired
         THEN /\ runMove' = id.bestMove
              /\ id' = IdleId
              /\ pc' = "apply"
       ELSE IF score <= id.alpha
         THEN /\ id' = [id EXCEPT !.score = score, !.alpha = id.alpha - id.delta,
                                  !.delta = id.delta * 2, !.at = "call"]
              /\ UNCHANGED <<runMove, pc>>
       ELSE IF score >= id.beta
         THEN /\ id' = [id EXCEPT !.score = score, !.beta = id.beta + id.delta,
                                  !.delta = id.delta * 2, !.at = "call"]
              /\ UNCHANGED <<runMove, pc>>
       ELSE /\ id' = [id EXCEPT !.score = score, !.lastScore = score,
                                !.bestMove = IF bestm[id.depth] # -1
                                               THEN bestm[id.depth] ELSE id.bestMove,
                                !.depth = id.depth + 1, !.at = "depthCheck"]
            /\ UNCHANGED <<runMove, pc>>
  /\ UNCHANGED <<played, board, player, transTable, historyHeuristic, bestm, timeExpired,
                 timeLimit, clock, stack, ret, tie, probe>>

\* IDAfterSearch with a fault seeded: after a failed search the same window is
\* searched again, neither bound moved
IDAfterSearchSameWindow ==
  /\ pc = "search" /\ id.at = "wait" /\ stack = <<>>
  /\ LET score == ret.val IN
       IF timeExpired
         THEN /\ runMove' = id.bestMove
              /\ id' = IdleId
              /\ pc' = "apply"
       ELSE IF score <= id.alpha \/ score >= id.beta
         THEN /\ id' = [id EXCEPT !.score = score, !.delta = id.delta * 2, !.at = "call"]
              /\ UNCHANGED <<runMove, pc>>
       ELSE /\ id' = [id EXCEPT !.score = score, !.lastScore = score,
                                !.bestMove = IF bestm[id.depth + 1] # -1
                                               THEN bestm[id.depth + 1] ELSE id.bestMove,
                                !.depth = id.depth + 1, !.at = "depthCheck"]
            /\ UNCHANGED <<runMove, pc>>
  /\ UNCHANGED <<played, board, player, transTable, historyHeuristic, bestm, timeExpired,
                 timeLimit, clock, stack, ret, tie, probe>>

\* lines 722-757: the root's score read; abort, widen and search again, or
\* accept the depth and go on to the next
IDAfterSearch ==
  /\ pc = "search" /\ id.at = "wait" /\ stack = <<>>
  /\ LET score == ret.val IN
       IF timeExpired
         THEN /\ runMove' = id.bestMove
              /\ id' = IdleId
              /\ pc' = "apply"
       ELSE IF score <= id.alpha
         THEN /\ id' = [id EXCEPT !.score = score, !.alpha = id.alpha - id.delta,
                                  !.delta = id.delta * 2, !.at = "call"]
              /\ UNCHANGED <<runMove, pc>>
       ELSE IF score >= id.beta
         THEN /\ id' = [id EXCEPT !.score = score, !.beta = id.beta + id.delta,
                                  !.delta = id.delta * 2, !.at = "call"]
              /\ UNCHANGED <<runMove, pc>>
       ELSE /\ id' = [id EXCEPT !.score = score, !.lastScore = score,
                                !.bestMove = IF bestm[id.depth + 1] # -1
                                               THEN bestm[id.depth + 1] ELSE id.bestMove,
                                !.depth = id.depth + 1, !.at = "depthCheck"]
            /\ UNCHANGED <<runMove, pc>>
  /\ UNCHANGED <<played, board, player, transTable, historyHeuristic, bestm, timeExpired,
                 timeLimit, clock, stack, ret, tie, probe>>

\* RunTop with a fault seeded: the game ends as soon as the side to move has no move
RunTopNoPass ==
  /\ pc = "top"
  /\ IF ~hasLegalMoves(board, player)
       THEN pc' = "over"
       ELSE pc' = IF player = human THEN "human" ELSE "computer"
  /\ UNCHANGED <<played, board, player, transTable, historyHeuristic, bestm, timeExpired,
                 timeLimit, clock, stack, ret, id, tie, runMove, probe>>

\* RunTop with a fault seeded: a side without a move passes, whether or not the
\* other side has one
RunTopNoGameOver ==
  /\ pc = "top"
  /\ IF ~hasLegalMoves(board, player)
       THEN player' = opponent(player) /\ UNCHANGED pc
       ELSE /\ pc' = IF player = human THEN "human" ELSE "computer"
            /\ UNCHANGED player
  /\ UNCHANGED <<played, board, transTable, historyHeuristic, bestm, timeExpired, timeLimit,
                 clock, stack, ret, id, tie, runMove, probe>>

\* ------------------------------------------------------------------------
\* OthelloGame::run
\* ------------------------------------------------------------------------
\* lines 788-811: the head of the game loop: game over, pass, or a turn
RunTop ==
  /\ pc = "top"
  /\ IF ~hasLegalMoves(board, player)
       THEN IF ~hasLegalMoves(board, opponent(player))
              THEN pc' = "over" /\ UNCHANGED player
              ELSE player' = opponent(player) /\ UNCHANGED pc
       ELSE /\ pc' = IF player = human THEN "human" ELSE "computer"
            /\ UNCHANGED player
  /\ UNCHANGED <<played, board, transTable, historyHeuristic, bestm, timeExpired, timeLimit,
                 clock, stack, ret, id, tie, runMove, probe>>

\* the cells the human is taken to click: every legal move, and as illegal
\* clicks the occupied cell 44 and the lowest empty cell that is no legal move
ClickCells(b, p) ==
  LET legal == {c \in Interior : legalMove(b, c, p)}
      dead == {c \in Interior : b[c] = EMPTY /\ ~legalMove(b, c, p)}
  IN legal \cup {44} \cup {c \in dead : \A e \in dead : c <= e}

\* line 806, getMove: the human clicks an interior cell
HumanInput ==
  /\ pc = "human"
  /\ \E c \in ClickCells(board, player) : runMove' = c
  /\ pc' = "humanApply"
  /\ UNCHANGED <<played, board, player, transTable, historyHeuristic, bestm, timeExpired,
                 timeLimit, clock, stack, ret, id, tie, probe>>

\* HumanApply with a fault seeded: the clicked cell is played without the legality test
HumanApplyUnchecked ==
  /\ pc = "humanApply"
  /\ board' = makeMove(board, runMove, player)
  /\ player' = opponent(player)
  /\ pc' = "top"
  /\ UNCHANGED <<played, transTable, historyHeuristic, bestm, timeExpired, timeLimit,
                 clock, stack, ret, id, tie, runMove, probe>>

\* lines 807-810: the human's move is played when it is legal
HumanApply ==
  /\ pc = "humanApply"
  /\ IF legalMove(board, runMove, player)
       THEN /\ board' = makeMove(board, runMove, player)
            /\ player' = opponent(player)
       ELSE UNCHANGED <<board, player>>
  /\ pc' = "top"
  /\ UNCHANGED <<played, transTable, historyHeuristic, bestm, timeExpired, timeLimit, clock,
                 stack, ret, id, tie, runMove, probe>>

\* fallbackFrom with a fault seeded: no fallback scan, -1 stays -1
fallbackNone(b, p, fallbackMove) == -1

\* the first cell the fallback scan of run finds legal, from fallbackMove
\* up to 99, or -1
fallbackFrom(b, p, fallbackMove) ==
  LET found == {c \in fallbackMove..99 : legalMove(b, c, p)} IN
    IF found = {} THEN -1
    ELSE CHOOSE c \in found : \A e \in found : c <= e

\* lines 832-844: the engine's move played, or the first legal cell when the
\* engine returned -1
ComputerApply ==
  /\ pc = "apply"
  /\ \E chosen \in {IF runMove # -1 THEN runMove ELSE fallbackFrom(board, player, 0)} :
       IF chosen # -1
         THEN /\ board' = makeMove(board, chosen, player)
              /\ player' = opponent(player)
         ELSE UNCHANGED <<board, player>>
  /\ pc' = "top"
  /\ UNCHANGED <<played, transTable, historyHeuristic, bestm, timeExpired, timeLimit, clock,
                 stack, ret, id, tie, runMove, probe>>

Next ==
  \/ RunTop
  \/ HumanInput
  \/ HumanApply
  \/ IDStart
  \/ IDStartTimer
  \/ IDDepthCheck
  \/ IDCall
  \/ IDAfterSearch
  \/ ABEnter
  \/ ABAfterPass
  \/ ABMove
  \/ ABAfterChild
  \/ ABFinish
  \/ ComputerApply
  \/ Opening
  \/ OpeningEnds

Spec == Init /\ [][Next]_vars

\* line 806: getMove returns a cell that is a legal move of the human
HumanChoosesLegal == HumanInput /\ legalMove(board, runMove', player)

\* the program keeps running (no step that can be taken is put off for ever),
\* and a human who is asked again and again ends up clicking a legal move
SpecLive == Init /\ [][Next]_vars /\ WF_vars(Next) /\ SF_vars(HumanChoosesLegal)

\* the program with the time limit disabled (enableTimeLimit(false)): timeUp()
\* answers false and getRemainingMs() INT_MAX at every call, so the clock is
\* never read as low or up
NextNoLimit == Next /\ clock' = "running"

SpecNoLimit ==
  Init /\ [][NextNoLimit]_vars /\ WF_vars(NextNoLimit) /\ SF_vars(HumanChoosesLegal)

\* ------------------------------------------------------------------------
\* The board operations called directly, on every position of GameLine, for
\* every interior cell and either colour
\* ------------------------------------------------------------------------
\* makeMoveWithUndo(c, p) called on the current position
ProbeMake ==
  /\ pc = "opening" /\ probe.at = "none"
  /\ \E c \in Interior, p \in {BLACK, WHITE} :
       LET r == makeMoveWithUndo(board, c, p) IN
         /\ board' = r.board
         /\ probe' = [at |-> "made", before |-> board, move |-> c, player |-> p,
                      undo |-> r.undo]
  /\ UNCHANGED <<played, player, pc, transTable, historyHeuristic, bestm, timeExpired,
                 timeLimit, clock, stack, ret, id, tie, runMove>>

\* unmakeMove called with the UndoInfo the call returned and the same colour
ProbeUnmake ==
  /\ probe.at = "made"
  /\ board' = unmakeMove(board, probe.undo, probe.player)
  /\ probe' = [probe EXCEPT !.at = "unmade"]
  /\ UNCHANGED <<played, player, pc, transTable, historyHeuristic, bestm, timeExpired,
                 timeLimit, clock, stack, ret, id, tie, runMove>>

\* makeMove(c, p) called on the current position
ProbeMakeMove ==
  /\ pc = "opening" /\ probe.at = "none"
  /\ \E c \in Interior, p \in {BLACK, WHITE} :
       /\ board' = makeMove(board, c, p)
       /\ probe' = [at |-> "moved", before |-> board, move |-> c, player |-> p,
                    undo |-> NoUndo]
  /\ UNCHANGED <<played, player, pc, transTable, historyHeuristic, bestm, timeExpired,
                 timeLimit, clock, stack, ret, id, tie, runMove>>

\* the position put back as it was before the call, for the game to go on
ProbeDone ==
  /\ probe.at \in {"unmade", "moved"}
  /\ board' = probe.before
  /\ probe' = NoProbe
  /\ UNCHANGED <<played, player, pc, transTable, historyHeuristic, bestm, timeExpired,
                 timeLimit, clock, stack, ret, id, tie, runMove>>

NextBoard ==
  \/ (probe.at = "none" /\ Opening)
  \/ ProbeMake
  \/ ProbeUnmake
  \/ ProbeMakeMove
  \/ ProbeDone

SpecBoard == Init /\ [][NextBoard]_vars

\* ------------------------------------------------------------------------
\* The transposition table called directly: store, lookup and clear on the
\* keys of two positions and two colours, before the game starts
\* ------------------------------------------------------------------------
MaxTableDepth == 2
TableValues == {-5, 5}
TableMoves == {-1, GameLine[1]}
TableFlags == {"EXACT", "LOWER_BOUND", "UPPER_BOUND"}
TableWindows == {<<-10, -5>>, <<-5, 5>>, <<-3, 3>>, <<5, 10>>}
StoreKeys == {<<initBoard, BLACK>>, <<makeMove(initBoard, GameLine[1], BLACK), BLACK>>}
LookupKeys == StoreKeys \cup {<<initBoard, WHITE>>}

TableIdle == pc = "opening" /\ played = 0 /\ probe.at = "none"

\* transTable.store(board, player, value, depth, bestMove, flag)
TableStore ==
  /\ TableIdle
  /\ \E k \in StoreKeys, v \in TableValues, d \in 0..MaxTableDepth,
        m \in TableMoves, f \in TableFlags :
       /\ transTable' = store(transTable, k[1], k[2], v, d, m, f)
       /\ probe' = [at |-> "stored", key |-> k, value |-> v, depth |-> d,
                    bestMove |-> m, flag |-> f]
  /\ UNCHANGED <<board, played, player, pc, historyHeuristic, bestm, timeExpired,
                 timeLimit, clock, stack, ret, id, tie, runMove>>

\* transTable.lookup(board, player, depth, alpha, beta, value, bestMove)
TableLookup ==
  /\ TableIdle
  /\ \E k \in LookupKeys, d \in 0..MaxTableDepth, w \in TableWindows :
       probe' = [at |-> "looked", key |-> k, depth |-> d, alpha |-> w[1], beta |-> w[2],
                 before |-> transTable,
                 result |-> lookup(transTable, k[1], k[2], d, w[1], w[2])]
  /\ UNCHANGED <<board, played, player, pc, transTable, historyHeuristic, bestm,
                 timeExpired, timeLimit, clock, stack, ret, id, tie, runMove>>

\* transTable.clear()
TableClear ==
  /\ TableIdle
  /\ transTable' = <<>>
  /\ probe' = [at |-> "cleared"]
  /\ UNCHANGED <<board, played, player, pc, historyHeuristic, bestm, timeExpired,
                 timeLimit, clock, stack, ret, id, tie, runMove>>

\* the call has returned to its caller
TableDone ==
  /\ probe.at \in {"stored", "looked", "cleared"}
  /\ probe' = NoProbe
  /\ UNCHANGED <<board, played, player, pc, transTable, historyHeuristic, bestm,
                 timeExpired, timeLimit, clock, stack, ret, id, tie, runMove>>

NextTable ==
  \/ TableStore
  \/ TableLookup
  \/ TableClear
  \/ TableDone

SpecTable == Init /\ [][NextTable]_vars

\* ------------------------------------------------------------------------
\* The table probe and the move ordering of alphabeta (lines 585-640) called
\* directly on the positions of the recorded game, for either colour, with one
\* entry in the table for the position (of value 5, inside the window (-10, 6):
\* a bound is not usable, an EXACT entry is) and with history counters as
\* earlier cutoffs can have left them; together with the game and its searches
\* ------------------------------------------------------------------------
OrderValue == 5
OrderWindow == <<-10, 6>>
OrderHistories == {[i \in Cells |-> 0], [i \in Cells |-> IF i % 2 = 0 THEN 4 ELSE 0]}
\* the best move of the entry: none, an occupied cell, the first or the last
\* of the generated moves
OrderHintMoves(b, p) ==
  LET gen == genMoves(b, p) IN
    {-1, 44} \cup {gen[i] : i \in {1, Len(gen)} \cap DOMAIN gen}

\* the direct calls are made on the positions from this move of the recorded game on
OrderFrom == 40

\* lines 585-640 for a node of colour p and remaining depth ply >= 1: the probe,
\* and on a miss the move list generated and ordered
OrderProbe ==
  /\ pc = "opening" /\ probe.at = "none" /\ played >= OrderFrom
  /\ \E p \in {BLACK, WHITE}, d \in 0..MaxTableDepth, f \in TableFlags,
        ply \in 1..MaxTableDepth, hist \in OrderHistories :
       \E m \in OrderHintMoves(board, p) :
         LET tt == store(<<>>, board, p, OrderValue, d, m, f)
             lk == lookup(tt, board, p, ply, OrderWindow[1], OrderWindow[2])
         IN probe' = [at |-> "ordered", player |-> p, ply |-> ply, table |-> tt,
                      hist |-> hist, hit |-> lk.hit,
                      moves |-> IF lk.hit THEN <<>>
                                ELSE orderMoves(board, p, hist, tie, lk.bestMove)]
  /\ UNCHANGED <<board, played, player, pc, transTable, historyHeuristic, bestm,
                 timeExpired, timeLimit, clock, stack, ret, id, tie, runMove>>

\* the call has returned to its caller
OrderDone ==
  /\ probe.at = "ordered"
  /\ probe' = NoProbe
  /\ UNCHANGED <<board, played, player, pc, transTable, historyHeuristic, bestm,
                 timeExpired, timeLimit, clock, stack, ret, id, tie, runMove>>

NextOrder ==
  \/ (probe.at = "none" /\ Next)
  \/ OrderProbe
  \/ OrderDone

SpecOrder == Init /\ [][NextOrder]_vars

\* ------------------------------------------------------------------------
\* Reference definitions the properties are stated against
\* ------------------------------------------------------------------------
SetMax(S) == CHOOSE x \in S : \A y \in S : y <= x

\* plain full-width negamax: the leaf is advancedEvaluation, a forced pass
\* recurses one ply shallower, game over is +32767 / -32767 / 0
RECURSIVE negamax(_, _, _)
negamax(b, p, d) ==
  IF d = 0 THEN advancedEvaluation(b, p)
  ELSE LET ms == {m \in Interior : legalMove(b, m, p)} IN
    IF ms = {}
      THEN IF hasLegalMoves(b, opponent(p))
             THEN -negamax(b, opponent(p), d - 1)
             ELSE gameOverValue(b, p)
      ELSE SetMax({-negamax(makeMove(b, m, p), opponent(p), d - 1) : m \in ms})

\* alphabeta with a table whose lookup always misses (and no time limit): the
\* same leaf, pass, game-over and move-loop rules, nothing read from a table
RECURSIVE alphabetaNoTable(_, _, _, _, _)
RECURSIVE moveLoopNoTable(_, _, _, _, _, _, _, _)
alphabetaNoTable(b, p, alpha, beta, ply) ==
  IF ply = 0 THEN advancedEvaluation(b, p)
  ELSE LET moves == orderMoves(b, p, [i \in Cells |-> 0], "asc", -1) IN
    IF moves = <<>>
      THEN IF hasLegalMoves(b, opponent(p))
             THEN neg(alphabetaNoTable(b, opponent(p), neg(beta), neg(alpha), ply - 1))
             ELSE gameOverValue(b, p)
      ELSE moveLoopNoTable(b, p, alpha, beta, ply, moves, 1, INT_MIN)

moveLoopNoTable(b, p, alpha, beta, ply, moves, k, bestVal) ==
  IF k > Len(moves) THEN bestVal
  ELSE LET val == neg(alphabetaNoTable(makeMoveWithUndo(b, moves[k], p).board,
                                        opponent(p), neg(beta), neg(alpha), ply - 1))
           best == IF val > bestVal THEN val ELSE bestVal
           a == IF best > alpha THEN best ELSE alpha
       IN IF val > bestVal /\ a >= beta THEN best
          ELSE moveLoopNoTable(b, p, a, beta, ply, moves, k + 1, best)

\* the aspiration loop of iterativeDeepening over alphabetaNoTable: the score
\* it accepts at the depth
RECURSIVE aspirationNoTable(_, _, _, _, _, _)
aspirationNoTable(b, p, depth, alpha, beta, delta) ==
  LET score == alphabetaNoTable(b, p, alpha, beta, depth) IN
    IF score <= alpha THEN aspirationNoTable(b, p, depth, alpha - delta, beta, delta * 2)
    ELSE IF score >= beta THEN aspirationNoTable(b, p, depth, alpha, beta + delta, delta * 2)
    ELSE score

RECURSIVE scoreNoTable(_, _, _)
scoreNoTable(b, p, depth) ==
  LET lastScore == IF depth = 1 THEN 0 ELSE scoreNoTable(b, p, depth - 1) IN
    aspirationNoTable(b, p, depth, lastScore - 64, lastScore + 64, 64)

cellsOf(b, v) == {i \in Cells : b[i] = v}

\* ------------------------------------------------------------------------
\* Properties
\* ------------------------------------------------------------------------
(* C1: round trip. For every position of the recorded game, every empty    *)
(* interior cell c and either colour p, makeMoveWithUndo(c, p) followed by *)
(* unmakeMove with the returned UndoInfo and the same p leaves all 100     *)
(* cells as they were before the move.                                     *)
RoundTrip ==
  (probe.at = "unmade" /\ probe.before[probe.move] = EMPTY) => board = probe.before

\* a legal move flipping at least three discs has been made and taken back
RoundTripWitness ==
  /\ probe.at = "unmade"
  /\ probe.before[probe.move] = EMPTY
  /\ Len(probe.undo.flippedPositions) >= 3

(* C2: search soundness. Whenever a call of alphabeta returns, without the *)
(* time limit having expired, a score strictly inside the (alpha, beta)    *)
(* window it was called with, that score is the value of plain full-width  *)
(* negamax of the call's position, side and depth.                         *)
AlphaBetaEqualsNegamax ==
  (/\ pc = "search"
   /\ \/ stack = <<>> /\ id.at = "wait"
      \/ stack # <<>> /\ Top.at \in {"child", "pass"}
   /\ ~timeExpired
   /\ ret.alpha < ret.val
   /\ ret.val < ret.beta)
  => ret.val = negamax(ret.board, ret.player, ret.ply)

(* C3: transposition correctness. The score iterativeDeepening accepts at  *)
(* a depth, searching with the transposition table, is the score the same  *)
(* search accepts at that depth with a table whose lookup always misses.   *)
TableScoreEqualsNoTableScore ==
  (pc = "search" /\ id.at = "depthCheck" /\ id.depth > 1)
  => id.lastScore = scoreNoTable(board, id.player, id.depth - 1)

(* C4: whenever the side to move has a legal move, the computer's turn     *)
(* plays exactly one move that is legal for that side and hands the turn   *)
(* to the opponent, whatever iterativeDeepening returned, -1 included.     *)
ComputerTurnPlaysLegalMove ==
  [][(pc = "apply" /\ hasLegalMoves(board, player))
       => /\ \E c \in Interior :
               /\ legalMove(board, c, player)
               /\ board' = makeMove(board, c, player)
          /\ player' = opponent(player)
          /\ pc' = "top"]_vars

\* iterativeDeepening has returned -1 to a side that has a legal move
ComputerFallbackWitness ==
  pc = "apply" /\ runMove = -1 /\ hasLegalMoves(board, player)

(* C5: time-out. The best move of iterativeDeepening changes only when a   *)
(* depth completes with a score strictly inside its window, to that        *)
(* depth's best move; when the search of a depth is aborted by the time    *)
(* limit, the move returned is that recorded move, unchanged by the        *)
(* aborted depth.                                                          *)
TimeoutKeepsCompletedMove ==
  [][/\ (pc = "search" /\ pc' = "search" /\ id'.bestMove # id.bestMove)
          => /\ ~timeExpired
             /\ id.at = "wait" /\ stack = <<>>
             /\ id.alpha < ret.val /\ ret.val < id.beta
             /\ id'.depth = id.depth + 1
             /\ id'.bestMove = bestm[id.depth + 1]
     /\ (pc = "search" /\ pc' = "apply" /\ timeExpired)
          => runMove' = id.bestMove]_vars

\* a depth was aborted by the time limit after an earlier depth had completed,
\* the aborted depth having reached another best move at the root
TimeoutWitness ==
  /\ pc = "search" /\ id.at = "wait" /\ stack = <<>> /\ timeExpired
  /\ id.bestMove # -1
  /\ bestm[id.depth + 1] # -1
  /\ bestm[id.depth + 1] # id.bestMove

(* C6: legality symmetry. For every position of the recorded game, every   *)
(* interior cell c and either colour p: legalMove(c, p) holds exactly when *)
(* c is empty and makeMoveWithUndo(c, p) records at least one flipped      *)
(* cell; every flipped cell held the opponent's colour before the move;    *)
(* countFlipsForMove(c, p) is the number of flipped cells.                 *)
LegalitySymmetry ==
  probe.at = "made" =>
    LET b == probe.before
        flipped == probe.undo.flippedPositions
    IN /\ legalMove(b, probe.move, probe.player)
            <=> (b[probe.move] = EMPTY /\ Len(flipped) >= 1)
       /\ \A k \in 1..Len(flipped) : b[flipped[k]] = opponent(probe.player)
       /\ countFlipsForMove(b, probe.move, probe.player) = Len(flipped)

\* a legal move flipping discs has been applied with makeMoveWithUndo
LegalitySymmetryWitness ==
  /\ probe.at = "made"
  /\ legalMove(probe.before, probe.move, probe.player)
  /\ Len(probe.undo.flippedPositions) >= 2

(* C7: aspiration re-search. When the root search of depth d returns,      *)
(* time not expired, a score <= alpha or >= beta, the window is widened on *)
(* the failing side only and depth d is searched again with the widened    *)
(* window; the depth advances, by one, only after a score strictly inside  *)
(* the window, which becomes lastScore, the root's best move being kept.   *)
AspirationResearch ==
  [][/\ (pc = "search" /\ id.at = "wait" /\ stack = <<>> /\ ~timeExpired)
          => IF ret.val <= id.alpha
               THEN /\ id'.at = "call" /\ id'.depth = id.depth
                    /\ id'.alpha < id.alpha /\ id'.beta = id.beta
                    /\ id'.lastScore = id.lastScore /\ id'.bestMove = id.bestMove
             ELSE IF ret.val >= id.beta
               THEN /\ id'.at = "call" /\ id'.depth = id.depth
                    /\ id'.beta > id.beta /\ id'.alpha = id.alpha
                    /\ id'.lastScore = id.lastScore /\ id'.bestMove = id.bestMove
             ELSE /\ id'.at = "depthCheck" /\ id'.depth = id.depth + 1
                  /\ id'.lastScore = ret.val
                  /\ bestm[id.depth + 1] # -1 => id'.bestMove = bestm[id.depth + 1]
     /\ (pc = "search" /\ id.at = "call")
          => stack' = <<Frame(id.player, id.alpha, id.beta, id.depth)>>
     /\ (pc = "search" /\ pc' = "search" /\ id'.depth # id.depth)
          => /\ id.at = "wait" /\ id'.depth = id.depth + 1
             /\ id.alpha < ret.val /\ ret.val < id.beta]_vars

\* a depth is about to be searched again with a window widened upwards
AspirationResearchWitness ==
  /\ pc = "search" /\ id.at = "call"
  /\ id.delta > 64
  /\ id.beta > id.lastScore + 64

(* C8: pass and game end. At the head of the game loop, when the side to   *)
(* move has no legal move and the opponent has one, the turn goes to the   *)
(* opponent with the board unchanged; when neither side has a legal move   *)
(* the loop ends, and from then on the board never changes.                *)
PassAndGameEnd ==
  [][/\ (pc = "top" /\ ~hasLegalMoves(board, player)
                    /\ hasLegalMoves(board, opponent(player)))
          => (player' = opponent(player) /\ board' = board /\ pc' = "top")
     /\ (pc = "top" /\ ~hasLegalMoves(board, player)
                    /\ ~hasLegalMoves(board, opponent(player)))
          => (pc' = "over" /\ board' = board)
     /\ pc = "over" => (pc' = "over" /\ board' = board)
     /\ (pc \in {"humanApply", "apply"} /\ board' # board)
          => hasLegalMoves(board, player)]_vars

\* the game loop is at its head, the side to move has to pass
PassWitness ==
  /\ pc = "top"
  /\ ~hasLegalMoves(board, player)
  /\ hasLegalMoves(board, opponent(player))

(* C9: illegal human move. When the cell the human chose is no legal move  *)
(* for the human's colour, the board, the side to move, the transposition  *)
(* table and the history table stay as they are and the human is to move.  *)
IllegalHumanMove ==
  [][(pc = "humanApply" /\ ~legalMove(board, runMove, player))
       => /\ board' = board
          /\ player' = player /\ player' = human
          /\ transTable' = transTable
          /\ historyHeuristic' = historyHeuristic
          /\ pc' = "top"]_vars

\* the human has clicked a cell that is no legal move
IllegalHumanMoveWitness ==
  pc = "humanApply" /\ ~legalMove(board, runMove, player)

(* C10: initial position. After initBoard Black holds exactly {44, 55},   *)
(* White exactly {45, 54}, every other interior cell is empty and every    *)
(* border cell is OUTER; Black's legal moves are exactly {35, 46, 53, 64}; *)
(* makeMove(35, BLACK) flips exactly cell 45, leaving Black on             *)
(* {35, 44, 45, 55} and White on {54}.                                     *)
InitialPosition ==
  /\ (played = 0 /\ probe.at = "none")
       => /\ cellsOf(board, BLACK) = {44, 55}
          /\ cellsOf(board, WHITE) = {45, 54}
          /\ cellsOf(board, OUTER) = {i \in Cells : IsBorder(i)}
          /\ cellsOf(board, EMPTY) = Interior \ {44, 45, 54, 55}
          /\ {c \in Interior : legalMove(board, c, BLACK)} = {35, 46, 53, 64}
  /\ (played = 0 /\ probe.at = "moved" /\ probe.move = 35 /\ probe.player = BLACK)
       => /\ cellsOf(board, BLACK) = {35, 44, 45, 55}
          /\ cellsOf(board, WHITE) = {54}
          /\ {i \in Cells : board[i] # probe.before[i]} = {35, 45}

\* makeMove(35, BLACK) has been called on the initial position
InitialPositionWitness ==
  played = 0 /\ probe.at = "moved" /\ probe.move = 35 /\ probe.player = BLACK

(* C11: the table replaces by depth. A store whose depth is smaller than the
   depth the key holds leaves the table as it was; any other store puts the
   stored value, depth, move and kind under the key and touches no other key;
   so between two clears no key is lost and no key's depth decreases. *)
DepthPreferredReplacement ==
  [][/\ probe'.at = "stored" =>
          LET k == probe'.key IN
            IF k \in DOMAIN transTable /\ probe'.depth < transTable[k].depth
              THEN transTable' = transTable
              ELSE /\ DOMAIN transTable' = DOMAIN transTable \cup {k}
                   /\ transTable'[k] = [value |-> probe'.value, depth |-> probe'.depth,
                                        bestMove |-> probe'.bestMove, flag |-> probe'.flag]
                   /\ \A j \in DOMAIN transTable \ {k} : transTable'[j] = transTable[j]
     /\ probe'.at # "cleared" =>
          \A k \in DOMAIN transTable :
             k \in DOMAIN transTable' /\ transTable'[k].depth >= transTable[k].depth]_vars

\* a store at a depth smaller than the depth held has been made
DepthPreferredReplacementWitness ==
  /\ probe.at = "stored"
  /\ probe.key \in DOMAIN transTable
  /\ probe.depth < transTable[probe.key].depth

(* C12: a lookup reports a usable value exactly when the table holds an entry
   under the very key (position, player) whose depth is at least the depth
   asked and which is Exact, or a LowerBound with value >= beta, or an
   UpperBound with value <= alpha; the value reported is the stored value; a
   lookup never changes the table. *)
LookupUsable ==
  probe.at = "looked" =>
    LET k == probe.key
        usable == /\ k \in DOMAIN probe.before
                  /\ probe.before[k].depth >= probe.depth
                  /\ \/ probe.before[k].flag = "EXACT"
                     \/ probe.before[k].flag = "LOWER_BOUND" /\ probe.before[k].value >= probe.beta
                     \/ probe.before[k].flag = "UPPER_BOUND" /\ probe.before[k].value <= probe.alpha
    IN /\ probe.result.hit <=> usable
       /\ probe.result.hit => probe.result.value = probe.before[k].value
       /\ transTable = probe.before

\* a lower bound that reaches beta has been reported, while the same position
\* with the other colour to move is not in the table
LookupUsableWitness ==
  /\ probe.at = "looked"
  /\ probe.result.hit
  /\ transTable[probe.key].flag = "LOWER_BOUND"
  /\ transTable[probe.key].depth > probe.depth
  /\ <<initBoard, WHITE>> \notin DOMAIN transTable

(* C13: the board keeps its shape. In every reachable state each border cell
   holds OUTER and each interior cell holds EMPTY, BLACK or WHITE; the cells a
   move writes (the move cell and the cells it flips, which are the cells its
   undo writes back) are interior cells; and every direction walk stops on an
   index in 0..99: the walks of legalMove, countFlipsForMove and makeFlips from
   an empty interior cell over either colour, and, where a leaf is evaluated,
   the walks of isStableInDirection from every disc over its own colour. *)
BoardShape ==
  /\ \A i \in Cells :
        IF IsBorder(i) THEN board[i] = OUTER ELSE board[i] \in {EMPTY, BLACK, WHITE}
  /\ \A k \in 1..Len(stack) :
        stack[k].undo # NoUndo =>
          /\ stack[k].undo.move \in Interior
          /\ \A j \in 1..Len(stack[k].undo.flippedPositions) :
                stack[k].undo.flippedPositions[j] \in Interior
  /\ \A m \in Interior :
        board[m] = EMPTY =>
          \A p \in {BLACK, WHITE} :
            /\ LET flipped == flipsOfMove([board EXCEPT ![m] = p], m, p) IN
                 \A j \in 1..Len(flipped) : flipped[j] \in Interior
            /\ \A d \in 1..8 : walkStop(board, m, AllDirections[d], opponent(p)) \in Cells
  /\ (stack # <<>> /\ Top.at = "entry" /\ Top.ply = 0) =>
        \A m \in Interior :
          board[m] \in {BLACK, WHITE} =>
            \A d \in 1..8 : walkStop(board, m, AllDirections[d], board[m]) \in Cells

\* the search has made a move on a cell next to the border that flipped discs,
\* and a walk from that cell has stopped on a border cell
BoardShapeWitness ==
  /\ stack # <<>>
  /\ Top.undo # NoUndo
  /\ Top.undo.flippedPositions # <<>>
  /\ \E d \in 1..8, v \in {BLACK, WHITE} :
        /\ walkStop(board, Top.undo.move, AllDirections[d], v) # Top.undo.move + AllDirections[d]
        /\ IsBorder(walkStop(board, Top.undo.move, AllDirections[d], v))

\* the position alphabeta frame k of the call stack was entered on: the root's
\* is the position iterativeDeepening was called on, a child's is its parent's
\* position with the parent's current move made (the same position for a pass)
entryBoard(k) ==
  IF k = 1 THEN id.rootBoard
  ELSE LET parent == stack[k - 1] IN
    IF parent.at = "pass" THEN parent.boardArray
    ELSE makeMoveWithUndo(parent.boardArray, parent.moves[parent.idx], parent.player).board

(* C14: the search leaves the board as it found it. Whenever an alphabeta call
   has returned (by time abort, table hit, leaf, pass, game over, cutoff or
   after all moves) the board is the position the call was entered on; the
   position a frame took at its entry is the position it was entered on, and
   the board equals it before each of its moves is made and when it finishes;
   between two root searches and when iterativeDeepening returns the board is
   the position iterativeDeepening was called on. *)
BoardRestored ==
  /\ [](pc = "search" =>
          /\ \A k \in 1..Len(stack) :
                stack[k].at # "entry" => stack[k].boardArray = entryBoard(k)
          /\ board = IF stack = <<>> THEN id.rootBoard
                     ELSE IF Top.at = "entry" THEN entryBoard(Len(stack))
                     ELSE IF Top.at = "child" THEN entryBoard(Len(stack) + 1)
                     ELSE Top.boardArray)
  /\ [][(pc = "search" /\ pc' # "search") => board' = id.rootBoard]_vars

\* a root search of depth 2 or more that the clock cut short has come back to
\* iterativeDeepening through the move loop of the root
BoardRestoredWitness ==
  /\ pc = "search" /\ stack = <<>> /\ id.at = "wait"
  /\ timeExpired
  /\ ret.how = "loop"
  /\ ret.ply >= 2
  /\ board = id.rootBoard

(* C15: bound validity. While the time limit of the decision has not expired,
   every entry the table holds is valid for its key's position, side and the
   depth it was stored with: an EXACT value is the plain full-width negamax
   value, a LOWER_BOUND value is at most it, an UPPER_BOUND value is at least
   it; the entries stored for a forced pass included. *)
StoredBoundsValid ==
  (pc = "search" /\ ~timeExpired) =>
    \A k \in DOMAIN transTable :
      LET entry == transTable[k]
          true == negamax(k[1], k[2], entry.depth)
      IN CASE entry.flag = "EXACT" -> entry.value = true
           [] entry.flag = "LOWER_BOUND" -> true >= entry.value
           [] entry.flag = "UPPER_BOUND" -> true <= entry.value

(* C16: the store that ends a node with legal moves. When the move loop of a
   node is over, the table is given, under the node's position and side, the
   node's remaining depth, its best value and its best move, with the kind
   UPPER_BOUND when the best value is at most the alpha the node was entered
   with, LOWER_BOUND when it is at least beta, EXACT when it lies strictly
   between; the entry is in the table afterwards unless the key held a greater
   depth, and the best value is what the call returns. *)
StoreOnFinish ==
  [][(stack # <<>> /\ Top.at = "finish") =>
       LET f == Top
           k == <<board, f.player>>
           kind == CASE f.bestVal <= f.originalAlpha -> "UPPER_BOUND"
                     [] f.bestVal > f.originalAlpha /\ f.bestVal >= f.beta -> "LOWER_BOUND"
                     [] f.originalAlpha < f.bestVal /\ f.bestVal < f.beta -> "EXACT"
       IN /\ k \in DOMAIN transTable'
          /\ (k \notin DOMAIN transTable \/ transTable[k].depth <= f.ply) =>
                transTable'[k] = [value |-> f.bestVal, depth |-> f.ply,
                                  bestMove |-> f.bestMove, flag |-> kind]
          /\ (k \in DOMAIN transTable /\ transTable[k].depth > f.ply) =>
                transTable'[k] = transTable[k]
          /\ \A j \in DOMAIN transTable \ {k} :
                j \in DOMAIN transTable' /\ transTable'[j] = transTable[j]
          /\ ret'.val = f.bestVal]_vars

\* the root of a search of depth 2 or more has finished its move loop, within
\* the time limit, with a best value strictly inside its window, and the table
\* holds it as EXACT with the root's depth and a move of the root
StoreOnFinishWitness ==
  /\ pc = "search" /\ ~timeExpired
  /\ stack = <<>> /\ id.at = "wait"
  /\ ret.how = "loop" /\ ret.ply >= 2
  /\ ret.alpha < ret.val /\ ret.val < ret.beta
  /\ <<ret.board, ret.player>> \in DOMAIN transTable
  /\ transTable[<<ret.board, ret.player>>].flag = "EXACT"
  /\ transTable[<<ret.board, ret.player>>].depth = ret.ply
  /\ transTable[<<ret.board, ret.player>>].bestMove # -1

(* C17: the order of a decision. iterativeDeepening empties the table before
   it starts the timer, and starts the timer before it searches; the first
   depth searched is 1, a later depth is the depth before it plus one, no
   depth above maxDepth is searched, and no depth is started when the time
   remaining, as read at the head of the depth loop, is below 100 ms; when the
   first root search of a decision begins the table is empty, so it holds no
   entry of an earlier decision. *)
DecisionOrder ==
  /\ [](pc = "search" =>
          /\ id.at = "startTimer" => transTable = <<>> /\ stack = <<>> /\ id.depth = 1
          /\ (stack # <<>> \/ id.at \in {"call", "wait"}) =>
                id.depth >= 1 /\ id.depth <= id.maxDepth
          /\ (id.at = "call" /\ id.depth = 1 /\ id.alpha = -64 /\ id.beta = 64) =>
                transTable = <<>>)
  /\ [][/\ (pc = "computer" /\ pc' = "search") => id'.at = "startTimer"
        /\ (pc = "search" /\ id.at = "startTimer") =>
              /\ clock' = "running" /\ transTable' = <<>> /\ stack' = <<>>
              /\ id'.at = "depthCheck" /\ id'.depth = 1
        /\ (pc = "search" /\ id.at = "depthCheck" /\ id'.at = "call") =>
              clock' = "running" /\ id'.depth = id.depth
        /\ (pc = "search" /\ pc' = "search" /\ id'.depth # id.depth) =>
              id.at = "wait" /\ id'.at = "depthCheck" /\ id'.depth = id.depth + 1]_vars

\* a decision has got as far as starting the search of depth 3, with time to spare
DecisionOrderWitness ==
  /\ pc = "search"
  /\ id.at = "call"
  /\ id.depth = 3
  /\ id.delta = 64
  /\ clock = "running"
  /\ transTable # <<>>

(* C18: the time abort. A call of alphabeta that finds the time exhausted at
   its entry sets timeExpired and returns the alpha it was called with, leaving
   the table, bestm, the history counters and the board as they were; from
   then until the decision ends timeExpired stays set, no call is started, no
   history counter changes, and the board changes only by a move being taken
   back. *)
TimeAbort ==
  [][/\ (stack # <<>> /\ Top.at = "entry" /\ clock' = "up") =>
          /\ timeExpired'
          /\ stack' = Pop
          /\ ret'.val = Top.alpha /\ ret'.how = "timeout"
          /\ UNCHANGED <<transTable, bestm, historyHeuristic, board>>
     /\ (pc = "search" /\ timeExpired) =>
          /\ pc' = "search" => timeExpired'
          /\ Len(stack') <= Len(stack)
          /\ historyHeuristic' = historyHeuristic
          /\ board' # board =>
                Top.at = "child" /\ board' = unmakeMove(board, Top.undo, Top.player)]_vars

\* the time has run out in a call two plies or more below the root, and a node
\* is being left with moves of its list still untried
TimeAbortWitness ==
  /\ pc = "search" /\ timeExpired
  /\ Len(stack) >= 2
  /\ Top.at = "finish"
  /\ Top.idx < Len(Top.moves)
  /\ ret.how = "timeout"

(* C19: move generation. For the position on the board and either colour, the
   generated move list holds exactly the cells for which legalMove is true,
   each once, all of them interior cells, and hasLegalMoves is true exactly
   when the list is not empty; the list a node of the search loops over holds
   exactly the legal moves of the node's position and side, each once. *)
MoveListExact ==
  /\ \A p \in {BLACK, WHITE} :
        LET legal == {m \in Cells : legalMove(board, m, p)}
            gen == genMoves(board, p)
        IN /\ {gen[i] : i \in 1..Len(gen)} = legal
           /\ Len(gen) = Cardinality(legal)
           /\ legal \subseteq Interior
           /\ hasLegalMoves(board, p) <=> gen # <<>>
  /\ (stack # <<>> /\ Top.at \in {"loop", "child", "finish"}) =>
        LET legal == {m \in Cells : legalMove(Top.boardArray, m, Top.player)} IN
          /\ {Top.moves[i] : i \in 1..Len(Top.moves)} = legal
          /\ Len(Top.moves) = Cardinality(legal)

\* a node of the search loops over two moves or more while an empty cell of
\* its position is no legal move, and the other colour has no move at all
MoveListExactWitness ==
  /\ stack # <<>> /\ Top.at = "loop"
  /\ Len(Top.moves) >= 2
  /\ \E m \in Interior : board[m] = EMPTY /\ ~legalMove(board, m, Top.player)
  /\ ~hasLegalMoves(board, opponent(Top.player))

(* C20: nodes without a move. For a call of alphabeta that has passed the time
   check and missed in the table: at remaining depth 0 it returns the static
   evaluation, whether or not there are moves; at depth >= 1, when the side to
   move has no legal move and the opponent has one, it calls the opponent's
   search on the same board at depth - 1 with the window (-beta, -alpha) and
   returns that call's value negated (the value INT_MIN, which has no negation
   in 32 bits, aside); when neither side has a legal move it returns +32767 if
   the side to move has more discs, -32767 if fewer, 0 if as many. *)
NoMoveNodes ==
  [][/\ (/\ stack # <<>> /\ Top.at = "entry" /\ clock' # "up"
         /\ ~lookup(transTable, board, Top.player, Top.ply, Top.alpha, Top.beta).hit) =>
          LET f == Top
              mine == Cardinality(cellsOf(board, f.player))
              theirs == Cardinality(cellsOf(board, opponent(f.player)))
              last == Len(stack')
          IN /\ f.ply = 0 =>
                  /\ stack' = Pop /\ board' = board
                  /\ ret'.val = advancedEvaluation(board, f.player)
             /\ (f.ply >= 1 /\ \A m \in Interior : ~legalMove(board, m, f.player)) =>
                  IF \E m \in Interior : legalMove(board, m, opponent(f.player))
                    THEN /\ last = Len(stack) + 1 /\ board' = board
                         /\ stack'[last - 1].at = "pass"
                         /\ stack'[last].at = "entry"
                         /\ stack'[last].player = opponent(f.player)
                         /\ stack'[last].ply = f.ply - 1
                         /\ stack'[last].alpha = -f.beta
                         /\ stack'[last].beta = -f.alpha
                    ELSE /\ stack' = Pop /\ board' = board
                         /\ ret'.val = IF mine > theirs THEN 32767
                                       ELSE IF mine < theirs THEN -32767 ELSE 0
     /\ (stack # <<>> /\ Top.at = "pass") =>
          /\ stack' = Pop /\ board' = board
          /\ ret.player = opponent(Top.player) /\ ret.ply = Top.ply - 1
          /\ ret.alpha = -Top.beta /\ ret.beta = -Top.alpha
          /\ ret.board = board
          /\ ret.val # INT_MIN => ret'.val = -ret.val]_vars

\* a node whose side had to pass has its value from the opponent's search of
\* the same board, which went through the opponent's move loop within the time
NoMoveNodesWitness ==
  /\ pc = "search" /\ ~timeExpired
  /\ stack # <<>> /\ Top.at \in {"child", "pass"}
  /\ ret.how = "pass"
  /\ ret.ply >= 2
  /\ ret.val # 0
  /\ ~hasLegalMoves(ret.board, ret.player)
  /\ hasLegalMoves(ret.board, opponent(ret.player))

(* C21: cutoff and history. When a move of a node has improved the best value
   and alpha has thereby reached beta, the node goes straight to its end (no
   further sibling is searched) and the history counter of that move grows by
   exactly the square of the node's remaining depth; a node at its end only
   stores and returns; no other step changes a history counter, so every
   counter is non-negative at all times and never decreases, a new decision
   (which clears the table) included. *)
CutoffAndHistory ==
  /\ [](\A i \in Cells : historyHeuristic[i] >= 0)
  /\ [][/\ \A i \in Cells : historyHeuristic'[i] >= historyHeuristic[i]
        /\ historyHeuristic' # historyHeuristic =>
              stack # <<>> /\ Top.at = "child" /\ ~timeExpired
        /\ (stack # <<>> /\ Top.at = "child" /\ ~timeExpired) =>
              LET f == Top
                  move == f.moves[f.idx]
                  val == neg(ret.val)
                  newAlpha == IF val > f.alpha THEN val ELSE f.alpha
              IN IF val > f.bestVal /\ newAlpha >= f.beta
                   THEN /\ stack'[Len(stack)].at = "finish"
                        /\ Len(stack') = Len(stack)
                        /\ \A i \in Cells :
                              historyHeuristic'[i] =
                                historyHeuristic[i] + (IF i = move THEN f.ply * f.ply ELSE 0)
                   ELSE historyHeuristic' = historyHeuristic
        /\ (stack # <<>> /\ Top.at = "finish") =>
              stack' = Pop /\ board' = board]_vars

\* a node two plies or more above the leaves has been cut off with moves of
\* its list still untried, and the counter of the move that cut holds the square
CutoffAndHistoryWitness ==
  /\ pc = "search" /\ ~timeExpired
  /\ stack # <<>> /\ Top.at = "finish"
  /\ Top.ply >= 2
  /\ Top.idx <= Len(Top.moves)
  /\ Top.alpha >= Top.beta
  /\ historyHeuristic[Top.bestMove] >= Top.ply * Top.ply

(* C22: the move-ordering hint. When a node goes on to its move loop (the time
   check passed, the table gave no usable value) and the table holds, for the
   node's position and side, an entry of depth at least the node's remaining
   depth whose best move is a legal move of the node, that move is the first
   of the node's list; the moves after it (all moves when there is no such
   entry) are in the comparator's order: never a move before one that goes
   ahead of it by corner, then larger history counter, then more flips, then
   larger static weight; the list holds the generated moves, each once. This
   holds for the probe and ordering called directly and for every node of the
   searches of the game, whose children are searched in the order of the
   list, one after the other from its first move. *)
OrderingHint ==
  /\ [](probe.at = "ordered" /\ ~probe.hit =>
          LET p == probe.player
              ms == probe.moves
              entry == probe.table[<<board, p>>]
              hint == /\ entry.depth >= probe.ply
                      /\ entry.bestMove \in Cells
                      /\ legalMove(board, entry.bestMove, p)
              start == IF hint THEN 2 ELSE 1
          IN /\ hint => ms # <<>> /\ ms[1] = entry.bestMove
             /\ \A i \in start..(Len(ms) - 1) :
                   ~moveLess(board, p, probe.hist, ms[i + 1], ms[i])
             /\ {ms[i] : i \in 1..Len(ms)} = {m \in Interior : legalMove(board, m, p)}
             /\ Len(ms) = Len(genMoves(board, p)))
  /\ [][/\ (/\ stack # <<>> /\ Top.at = "entry"
             /\ Len(stack') = Len(stack) /\ stack'[Len(stack)].at = "loop") =>
              LET f == Top
                  ms == stack'[Len(stack)].moves
                  k == <<board, f.player>>
                  hint == /\ k \in DOMAIN transTable
                          /\ transTable[k].depth >= f.ply
                          /\ transTable[k].bestMove \in Cells
                          /\ legalMove(board, transTable[k].bestMove, f.player)
                  start == IF hint THEN 2 ELSE 1
              IN /\ stack'[Len(stack)].idx = 1
                 /\ hint => ms[1] = transTable[k].bestMove
                 /\ \A i \in start..(Len(ms) - 1) :
                       ~moveLess(board, f.player, historyHeuristic, ms[i + 1], ms[i])
        /\ (stack # <<>> /\ Top.at = "loop" /\ board' # board) =>
              /\ stack'[Len(stack)].undo.move = Top.moves[Top.idx]
              /\ board'[Top.moves[Top.idx]] = Top.player
        /\ (/\ stack # <<>> /\ Top.at = "child"
             /\ Len(stack') = Len(stack) /\ stack'[Len(stack)].at = "loop") =>
              /\ stack'[Len(stack)].idx = Top.idx + 1
              /\ stack'[Len(stack)].moves = Top.moves]_vars

\* the table's move, from a bound of greater depth that the window cannot use,
\* is first in a list of three moves or more although the comparator puts the
\* second move of the list ahead of it; the history counters are not all equal
OrderingHintWitness ==
  /\ probe.at = "ordered" /\ ~probe.hit
  /\ Len(probe.moves) >= 3
  /\ probe.table[<<board, probe.player>>].depth > probe.ply
  /\ probe.table[<<board, probe.player>>].flag = "LOWER_BOUND"
  /\ probe.table[<<board, probe.player>>].bestMove = probe.moves[1]
  /\ moveLess(board, probe.player, probe.hist, probe.moves[2], probe.moves[1])
  /\ probe.hist[probe.moves[2]] # probe.hist[probe.moves[3]]

(* C23: game progress. In the game loop the board changes only when a move is
   applied (the human's or the engine's); every applied move puts one disc on
   an empty interior cell, so the number of occupied interior cells grows by
   exactly one, and no occupied cell becomes empty; a pass at the head of the
   loop hands the turn to a side that has a legal move, so the next pass of
   the loop is no pass; the number of applied moves is the number of occupied
   cells less the four of the start, at most 60; and, the human choosing a
   legal move in the end, the game reaches game over. *)
GameProgress ==
  /\ [][/\ (pc \notin {"opening", "search"} /\ board' # board) =>
             /\ pc \in {"humanApply", "apply"} /\ pc' = "top"
             /\ countPieces(board') = countPieces(board) + 1
             /\ \A i \in Cells : board[i] # EMPTY => board'[i] # EMPTY
             /\ player' = opponent(player)
        /\ (pc = "top" /\ player' # player) =>
             /\ pc' = "top" /\ board' = board
             /\ ~hasLegalMoves(board, player)
             /\ hasLegalMoves(board', player')]_vars
  /\ [](countPieces(board) - countPieces(initBoard) <= 60)
  /\ <>(pc = "over")

\* the game is over on a full board, the last move applied by the game loop
GameProgressWitness ==
  /\ pc = "over"
  /\ runMove \in Interior /\ board[runMove] # EMPTY
  /\ countPieces(board) = 64

\* the loop has passed: the side to move at the head of the loop got the turn
\* without a move of the other side before it
GameProgressPassWitness ==
  /\ pc = "top"
  /\ runMove \in Interior /\ board[runMove] = player
  /\ hasLegalMoves(board, player)

(* C24: no overflow in negamax. No call of alphabeta returns INT_MIN, so that
   the parent's negation of the returned value does not overflow, and no entry
   of the transposition table has the value INT_MIN; runs in which the time
   limit expires during the search are included. *)
NoIntMinValue ==
  /\ ret.val # INT_MIN
  /\ \A k \in DOMAIN transTable : transTable[k].value # INT_MIN
  /\ (stack # <<>> /\ Top.at \in {"child", "pass"}) => -ret.val <= 2147483647

(* C25: the aspiration loop terminates. With the time limit disabled, every
   search iterativeDeepening starts for a depth is followed, after finitely
   many searches of that depth, by a score strictly inside the window, which
   ends the depth; a search of the root that fails returns a score between
   -32767 and 32767 at or beyond the bound it failed on, whether searched or
   answered from the table, and moves that bound by delta and doubles delta;
   delta is 64 doubled at most 20 times, alpha is no lower than -32767 - delta
   and beta no higher than 32767 + delta, all inside the 32-bit range. *)
AspirationTerminates ==
  /\ [](id.at \in {"call", "wait"} =>
          /\ id.delta \in {64 * 2^k : k \in 0..20}
          /\ id.alpha >= -32767 - id.delta /\ id.alpha < id.beta
          /\ id.beta <= 32767 + id.delta
          /\ id.alpha >= INT_MIN /\ id.beta <= 2147483647 /\ id.delta <= 2147483647)
  /\ [][(id.at = "wait" /\ id'.at = "call") =>
          /\ ~timeExpired /\ stack = <<>>
          /\ ret.val >= -32767 /\ ret.val <= 32767
          /\ id'.delta = 2 * id.delta /\ id'.depth = id.depth
          /\ IF ret.val <= id.alpha
                THEN id'.alpha = id.alpha - id.delta /\ id'.beta = id.beta
                ELSE /\ ret.val >= id.beta
                     /\ id'.beta = id.beta + id.delta /\ id'.alpha = id.alpha]_vars
  /\ [](clock = "running" /\ ~timeExpired)
  /\ (id.at = "call") ~>
        (id.at = "depthCheck" /\ id.alpha < id.lastScore /\ id.lastScore < id.beta)

\* a depth is searched a third time: the first search failed, the second, with
\* the window widened once, was answered at the root from the entry the first
\* search stored, and failed again
AspirationTerminatesWitness ==
  /\ id.at = "call" /\ id.delta = 256
  /\ ret.how = "hit" /\ ret.ply = id.depth
  /\ clock = "running" /\ ~timeExpired

(* C26: the returned move is legal. iterativeDeepening returns on the board it
   was called on, and what it returns is -1 or an interior cell that is a
   legal move of its player on that board; when the player has a legal move
   and a depth was completed (the depth counter is past 1), it is not -1. The
   move kept between the depths is such a cell or -1 all along, and when a
   search of the root is answered from the table, the move the hit puts into
   the root's slot of bestm is a legal move of the root position. *)
ReturnedMoveLegal ==
  /\ [](pc = "search" =>
          \/ id.bestMove = -1
          \/ id.bestMove \in Interior /\ legalMove(id.rootBoard, id.bestMove, id.player))
  /\ [][/\ (pc = "search" /\ pc' = "apply") =>
             /\ board = id.rootBoard /\ board' = board /\ player' = id.player
             /\ \/ runMove' = -1
                \/ runMove' \in Interior /\ legalMove(id.rootBoard, runMove', id.player)
             /\ (id.depth > 1 /\ hasLegalMoves(id.rootBoard, id.player)) => runMove' # -1
        /\ (/\ Len(stack) = 1 /\ Top.at = "entry" /\ stack' = <<>>
             /\ ret'.how = "hit") =>
             /\ board = id.rootBoard /\ Top.ply = id.depth
             /\ bestm'[id.depth + 1] \in Interior
             /\ legalMove(id.rootBoard, bestm'[id.depth + 1], id.player)]_vars

\* iterativeDeepening has returned, in time, a legal move of the position after
\* a depth of two or more whose search went through the root's move loop
ReturnedMoveLegalWitness ==
  /\ pc = "apply" /\ ~timeExpired
  /\ ret.how = "loop" /\ ret.ply >= 2 /\ ret.player = player
  /\ runMove \in Interior /\ legalMove(board, runMove, player)

\* a search of the root, repeated with a wider window, has been answered from
\* the table, and the root's slot of bestm holds the entry's move, a legal one
ReturnedMoveLegalHitWitness ==
  /\ pc = "search" /\ id.at = "wait" /\ stack = <<>> /\ ~timeExpired
  /\ ret.how = "hit" /\ ret.ply = id.depth /\ id.delta > 64
  /\ bestm[id.depth + 1] = transTable[<<board, id.player>>].bestMove
  /\ legalMove(board, bestm[id.depth + 1], id.player)

====
